---- MODULE Spec2Model ----
(***************************************************************************)
(* geonetworkx/tools.py: spatial_points_merge and spatial_graph_merge.     *)
(*                                                                         *)
(* Geometry.  Coordinates are integers and every line is a polyline whose  *)
(* segments are parallel to an axis, so that lengths, projections and cut  *)
(* points are exact integers.  Distances are compared squared.             *)
(*                                                                         *)
(* Graphs.  A graph is a record                                            *)
(*   directed, multi : the class of the graph                              *)
(*   nodes           : node names in insertion order                       *)
(*   data            : node name -> attribute map                          *)
(*   edges           : edge records [u, v, key, geom] in insertion order,  *)
(*                     u and v as they were given to add_edge              *)
(* graph.edges reports an undirected edge from its end that comes first in *)
(* node order, whichever way it was added (EdgeView).                      *)
(*                                                                         *)
(* Objects.  heap holds the graph objects of one call; `graph`,            *)
(* `merged_graph` and the returned value name an object of the heap, so    *)
(* that working in place and working on a copy differ as they do in the    *)
(* code.                                                                   *)
(*                                                                         *)
(* Steps.  A behaviour is one call of either function: the call, one step  *)
(* per pass of the loop over the points, one step per pass of the loop     *)
(* over edges_to_split, the return, and for spatial_graph_merge the        *)
(* composition.  placed, removed and entry record what the steps did.      *)
(***************************************************************************)
EXTENDS Integers, Sequences, FiniteSets, TLC

\* ------------------------------------------------------------------ bounds
\* Largest number of points in one batch given to spatial_points_merge.
MaxPoints == 2

\* ---------------------------------------------------------------- geometry
Abs(x) == IF x < 0 THEN -x ELSE x

Min(a, b) == IF a <= b THEN a ELSE b

Max(a, b) == IF a >= b THEN a ELSE b

Clamp(x, lo, hi) == Max(lo, Min(x, hi))

Sign(x) == IF x > 0 THEN 1 ELSE IF x < 0 THEN -1 ELSE 0

SetMin(S) == CHOOSE m \in S : \A x \in S : m <= x

\* Length of an axis-parallel segment.
SegLen(a, b) == Abs(b[1] - a[1]) + Abs(b[2] - a[2])

\* LineString.length
RECURSIVE LineLength(_)
LineLength(line) ==
    IF Len(line) < 2 THEN 0
    ELSE SegLen(line[1], line[2]) + LineLength(Tail(line))

\* Length of the line up to its i-th vertex.
PrefixLen(line, i) == LineLength(SubSeq(line, 1, i))

\* Squared euclidean distance between two coordinates.
DistSq(p, q) == (p[1] - q[1]) * (p[1] - q[1]) + (p[2] - q[2]) * (p[2] - q[2])

\* utils.euclidian_distance, squared: the code only compares two distances,
\* and squaring keeps the order of non-negative numbers.
euclidian_distance(p, q) == DistSq(p, q)

\* The point of segment a-b closest to p.
SegClosest(a, b, p) ==
    << Clamp(p[1], Min(a[1], b[1]), Max(a[1], b[1])),
       Clamp(p[2], Min(a[2], b[2]), Max(a[2], b[2])) >>

SegDistSq(line, i, p) == DistSq(p, SegClosest(line[i], line[i + 1], p))

\* Squared distance from p to the line.
LineDistSq(line, p) == SetMin({SegDistSq(line, i, p) : i \in 1..(Len(line) - 1)})

\* LineString.project: distance along the line of the point of the line
\* closest to p (the first such point along the line).
Project(line, p) ==
    LET best == LineDistSq(line, p)
        i == SetMin({j \in 1..(Len(line) - 1) : SegDistSq(line, j, p) = best})
    IN  PrefixLen(line, i) + SegLen(line[i], SegClosest(line[i], line[i + 1], p))

\* LineString.interpolate: the point of the line at distance d from its start.
Interpolate(line, d) ==
    IF d <= 0 THEN line[1]
    ELSE IF d >= LineLength(line) THEN line[Len(line)]
    ELSE LET i == SetMin({j \in 1..(Len(line) - 1) : PrefixLen(line, j + 1) >= d})
             r == d - PrefixLen(line, i)
             a == line[i]
             b == line[i + 1]
         IN  << a[1] + r * Sign(b[1] - a[1]), a[2] + r * Sign(b[2] - a[2]) >>

\* geometry_operations.split_line: (before, after), cut at distance d from
\* the start of the line, 0 <= d <= length.
split_line(line, d) ==
    LET n == Len(line)
        i == SetMin({j \in 1..n : PrefixLen(line, j) >= d})
        cp == Interpolate(line, d)
    IN  IF PrefixLen(line, i) = d
        THEN << IF i = 1 THEN << line[1], line[1] >> ELSE SubSeq(line, 1, i),
                IF i = n THEN << line[n], line[n] >> ELSE SubSeq(line, i, n) >>
        ELSE << Append(SubSeq(line, 1, i - 1), cp), << cp >> \o SubSeq(line, i, n) >>

\* The index of the line closest to pt, the first one among equally close
\* lines.
closest_line_index(pt, lines) ==
    LET best == SetMin({LineDistSq(lines[i], pt) : i \in 1..Len(lines)})
    IN  SetMin({i \in 1..Len(lines) : LineDistSq(lines[i], pt) = best})

\* geometry_operations.get_closest_line_from_points: for each point, the
\* index of its closest line.
get_closest_line_from_points(points_coords, lines) ==
    [i \in 1..Len(points_coords) |-> closest_line_index(points_coords[i], lines)]

\* ------------------------------------------------------------------- names
\* A node name: a base string, the intersection prefix or none, and the
\* counter a rename appends (0: none).
Name(s) == [pre |-> "", base |-> s, n |-> 0]

\* settings.INTERSECTION_PREFIX + str(p_index)
IntersectionName(idx) == [idx EXCEPT !.pre = "I"]

\* ------------------------------------------------------------------- graph
EmptyGraph(directed, multi) ==
    [directed |-> directed, multi |-> multi, nodes |-> << >>,
     data |-> << >>, edges |-> << >>]

NodeSet(g) == {g.nodes[i] : i \in 1..Len(g.nodes)}

NodeIdx(g, n) == CHOOSE i \in 1..Len(g.nodes) : g.nodes[i] = n

\* Graph.add_node(name, **info): a new node, or new values on an old one.
add_node(g, name, info) ==
    IF name \in NodeSet(g)
    THEN [g EXCEPT !.data = [@ EXCEPT ![name] = info @@ @]]
    ELSE [g EXCEPT !.nodes = Append(@, name), !.data = (name :> info) @@ @]

\* GeoGraph.get_node_coordinates
get_node_coordinates(g, n) == << g.data[n]["x"], g.data[n]["y"] >>

\* Whether the stored edge e joins u and v (in that order when directed).
Joins(g, e, u, v) ==
    \/ e.u = u /\ e.v = v
    \/ ~g.directed /\ e.u = v /\ e.v = u

\* MultiGraph.new_edge_key
new_edge_key(g, u, v) ==
    LET used == {g.edges[i].key : i \in {j \in 1..Len(g.edges) : Joins(g, g.edges[j], u, v)}}
    IN  SetMin({k \in Cardinality(used)..(2 * Cardinality(used)) : k \notin used})

\* Graph.add_edge(u, v, geometry=geom) between two nodes of the graph.
add_edge(g, u, v, geom) ==
    IF g.multi
    THEN [g EXCEPT !.edges = Append(@, [u |-> u, v |-> v, key |-> new_edge_key(g, u, v), geom |-> geom])]
    ELSE IF \E i \in 1..Len(g.edges) : Joins(g, g.edges[i], u, v)
         THEN LET i == CHOOSE j \in 1..Len(g.edges) : Joins(g, g.edges[j], u, v)
              IN  [g EXCEPT !.edges[i].geom = geom]
         ELSE [g EXCEPT !.edges = Append(@, [u |-> u, v |-> v, key |-> 0, geom |-> geom])]

\* Whether the stored edge e is the edge named `name`: (u, v), or (u, v, key)
\* in a multigraph.
Named(g, e, name) ==
    /\ Joins(g, e, name[1], name[2])
    /\ Len(name) = 3 => e.key = name[3]

\* Graph.has_edge(*name)
has_edge(g, name) == \E i \in 1..Len(g.edges) : Named(g, g.edges[i], name)

\* Graph.remove_edge(*name)
remove_edge(g, name) ==
    LET Keep(e) == ~Named(g, e, name)
    IN  [g EXCEPT !.edges = SelectSeq(@, Keep)]

\* The edges of seq, grouped by their far end in order of first appearance
\* (the order of an adjacency dict).
RECURSIVE GroupByNbr(_)
GroupByNbr(seq) ==
    IF seq = << >> THEN << >>
    ELSE LET Same(e) == e.v = seq[1].v
             Other(e) == e.v # seq[1].v
         IN  SelectSeq(seq, Same) \o GroupByNbr(SelectSeq(seq, Other))

\* The stored edge e as graph.edges reports it: from its end that comes
\* first in node order when the graph is undirected.
Reported(g, e) ==
    IF g.directed \/ NodeIdx(g, e.u) <= NodeIdx(g, e.v) THEN e
    ELSE [e EXCEPT !.u = e.v, !.v = e.u]

\* graph.edges: node by node in node order, each node's edges in the order
\* of its adjacency.
RECURSIVE EdgesFrom(_, _)
EdgesFrom(g, i) ==
    IF i > Len(g.nodes) THEN << >>
    ELSE LET From(e) == Reported(g, e).u = g.nodes[i]
             mine == SelectSeq(g.edges, From)
         IN  GroupByNbr([k \in 1..Len(mine) |-> Reported(g, mine[k])]) \o EdgesFrom(g, i + 1)

EdgeView(g) == EdgesFrom(g, 1)

\* The name graph.edges gives an edge: (u, v), or (u, v, key) in a multigraph.
EdgeName(g, e) == IF g.multi THEN << e.u, e.v, e.key >> ELSE << e.u, e.v >>

\* nx.get_edge_attributes(graph, graph.edges_geometry_key): the dict
\* edge name -> line, in the order of graph.edges.
get_edge_attributes(g) ==
    LET ev == EdgeView(g)
    IN  [i \in 1..Len(ev) |-> [name |-> EdgeName(g, ev[i]), line |-> ev[i].geom]]

\* utils.get_new_node_unique_name: the name itself when the graph has no such
\* node, else the name with the first free counter appended.
get_new_node_unique_name(g, name) ==
    IF name \notin NodeSet(g) THEN name
    ELSE LET free == {ct \in 1..(Len(g.nodes) + 1) : [name EXCEPT !.n = ct] \notin NodeSet(g)}
         IN  [name EXCEPT !.n = SetMin(free)]

\* nx.compose(G, H): the nodes and edges of both; where both hold a node or an
\* edge, the attributes of H are written over those of G.
RECURSIVE compose_nodes(_, _, _)
compose_nodes(r, h, i) ==
    IF i > Len(h.nodes) THEN r
    ELSE compose_nodes(add_node(r, h.nodes[i], h.data[h.nodes[i]]), h, i + 1)

add_keyed_edge(r, e) ==
    IF \E i \in 1..Len(r.edges) : Joins(r, r.edges[i], e.u, e.v) /\ r.edges[i].key = e.key
    THEN LET i == CHOOSE j \in 1..Len(r.edges) : Joins(r, r.edges[j], e.u, e.v) /\ r.edges[j].key = e.key
         IN  [r EXCEPT !.edges[i].geom = e.geom]
    ELSE [r EXCEPT !.edges = Append(@, e)]

RECURSIVE compose_edges(_, _, _)
compose_edges(r, es, i) ==
    IF i > Len(es) THEN r
    ELSE compose_edges(add_keyed_edge(r, es[i]), es, i + 1)

\* compose in which the attributes of G are written over those of H.
compose_first_wins(G, H) ==
    LET r0 == EmptyGraph(G.directed, G.multi)
        r1 == compose_nodes(compose_nodes(r0, H, 1), G, 1)
    IN  compose_edges(compose_edges(r1, EdgeView(H), 1), EdgeView(G), 1)

compose(G, H) ==
    LET r0 == EmptyGraph(G.directed, G.multi)
        r1 == compose_nodes(compose_nodes(r0, G, 1), H, 1)
    IN  compose_edges(compose_edges(r1, EdgeView(G), 1), EdgeView(H), 1)

\* readwrite.graph_nodes_to_gdf: one row per node, in node order: the node
\* name as index, its point, its attributes as columns.
graph_nodes_to_gdf(g, keep) ==
    LET Kept(n) == n \in keep
        names == SelectSeq(g.nodes, Kept)
    IN  [i \in 1..Len(names) |->
            [idx |-> names[i], pt |-> get_node_coordinates(g, names[i]), cols |-> g.data[names[i]]]]

SeqSet(seq) == {seq[i] : i \in 1..Len(seq)}

\* ------------------------------------------------- spatial_points_merge
\* target_graph without the copy: the caller's graph whatever inplace is.
target_graph_no_copy(inplace) == "base_graph"

\* Line 32: the graph object the function works on.
target_graph(inplace) == IF inplace THEN "base_graph" ELSE "copy"

\* is_on_edge with the two ends of the line counted as inside.
is_on_edge_closed(d, length) == 0 <= d /\ d <= length

\* Line 54: the projection falls inside the line.
is_on_edge(d, length) == 0 < d /\ d < length

\* Lines 62-71: the end node of the closest edge that the point snaps to.
closest_extremity(g, closest_edge_name, point) ==
    LET first_node == closest_edge_name[1]
        second_node == closest_edge_name[2]
        distance_to_first_extremity == euclidian_distance(point, get_node_coordinates(g, first_node))
        distance_to_second_extremity == euclidian_distance(point, get_node_coordinates(g, second_node))
    IN  IF distance_to_first_extremity < distance_to_second_extremity
        THEN first_node ELSE second_node

\* merge_edges with "in" and "out" taken for each other.
merge_edges_swapped(directed, merge_direction, node_name, intersection_node_name) ==
    IF directed
    THEN IF merge_direction = "both"
         THEN << << node_name, intersection_node_name >>, << intersection_node_name, node_name >> >>
         ELSE IF merge_direction = "out"
              THEN << << node_name, intersection_node_name >> >>
              ELSE << << intersection_node_name, node_name >> >>
    ELSE << << node_name, intersection_node_name >> >>

\* merge_edges that adds the edge back to the point whatever the direction.
merge_edges_always_back(directed, merge_direction, node_name, intersection_node_name) ==
    IF directed
    THEN IF merge_direction = "out"
         THEN << << intersection_node_name, node_name >> >>
         ELSE << << node_name, intersection_node_name >>, << intersection_node_name, node_name >> >>
    ELSE << << node_name, intersection_node_name >> >>

\* Lines 75-86: the (from, to) pairs of the edges added between the point
\* node and its intersection node.
merge_edges(directed, merge_direction, node_name, intersection_node_name) ==
    IF directed
    THEN IF merge_direction = "both"
         THEN << << node_name, intersection_node_name >>, << intersection_node_name, node_name >> >>
         ELSE IF merge_direction = "in"
              THEN << << node_name, intersection_node_name >> >>
              ELSE << << intersection_node_name, node_name >> >>
    ELSE << << node_name, intersection_node_name >> >>

\* Lines 73-86: each pair added as an edge whose geometry is the straight
\* segment from its first node to its second.
RECURSIVE add_merge_edges(_, _, _)
add_merge_edges(g, pairs, i) ==
    IF i > Len(pairs) THEN g
    ELSE LET u == pairs[i][1]
             v == pairs[i][2]
             line == << get_node_coordinates(g, u), get_node_coordinates(g, v) >>
         IN  add_merge_edges(add_edge(g, u, v, line), pairs, i + 1)

\* Line 60: edges_to_split[closest_edge_name][intersection_node_name] = d
record_split(table, closest_edge_name, intersection_node_name, d) ==
    LET item == [node |-> intersection_node_name, d |-> d]
    IN  IF \E i \in 1..Len(table) : table[i].edge = closest_edge_name
        THEN LET i == CHOOSE j \in 1..Len(table) : table[j].edge = closest_edge_name
             IN  [table EXCEPT ![i].nodes = Append(@, item)]
        ELSE Append(table, [edge |-> closest_edge_name, nodes |-> << item >>])

\* sorted_intersection_nodes without the sort: the nodes in recording order.
unsorted_intersection_nodes(intersection_nodes) == intersection_nodes

\* Line 96: sorted(intersection_nodes.keys(), key=distance), a stable sort.
RECURSIVE insert_sorted(_, _)
insert_sorted(sorted, x) ==
    IF sorted = << >> THEN << x >>
    ELSE IF sorted[Len(sorted)].d <= x.d THEN Append(sorted, x)
    ELSE Append(insert_sorted(SubSeq(sorted, 1, Len(sorted) - 1), x), sorted[Len(sorted)])

RECURSIVE sort_prefix(_, _)
sort_prefix(nodes, n) ==
    IF n = 0 THEN << >> ELSE insert_sorted(sort_prefix(nodes, n - 1), nodes[n])

sorted_intersection_nodes(intersection_nodes) ==
    sort_prefix(intersection_nodes, Len(intersection_nodes))

\* Line 102: where the remainder left by cut i is cut next.
cut_distance(distances_on_initial_line, i) ==
    distances_on_initial_line[i + 1] - distances_on_initial_line[i]

\* Lines 101-104: the cuts after the first one, and the last remainder.
RECURSIVE cut_remainder(_, _, _)
cut_remainder(remainder, distances_on_initial_line, i) ==
    IF i >= Len(distances_on_initial_line) THEN << remainder >>
    ELSE LET cut_lines == split_line(remainder, cut_distance(distances_on_initial_line, i))
         IN  << cut_lines[1] >> \o cut_remainder(cut_lines[2], distances_on_initial_line, i + 1)

\* Lines 98-104: split_lines
split_lines(initial_line, distances_on_initial_line) ==
    LET cut_lines == split_line(initial_line, distances_on_initial_line[1])
    IN  << cut_lines[1] >> \o cut_remainder(cut_lines[2], distances_on_initial_line, 1)

\* Lines 110-112: the edges between consecutive intersection nodes.
RECURSIVE add_intermediary_edges(_, _, _, _)
add_intermediary_edges(g, sorted, lines, i) ==
    IF i > Len(sorted) - 1 THEN g
    ELSE add_intermediary_edges(add_edge(g, sorted[i].node, sorted[i + 1].node, lines[i + 1]),
                                sorted, lines, i + 1)

\* Lines 93-94: the initial edge is removed if the graph still has it.
remove_initial_edge(g, e) == IF has_edge(g, e) THEN remove_edge(g, e) ELSE g

\* Lines 91-112: one edge of edges_to_split replaced by its sub-edges.
split_edge(g, e, intersection_nodes, initial_line) ==
    LET g1 == remove_initial_edge(g, e)
        sorted == sorted_intersection_nodes(intersection_nodes)
        distances_on_initial_line == [i \in 1..Len(sorted) |-> sorted[i].d]
        lines == split_lines(initial_line, distances_on_initial_line)
        g2 == add_edge(g1, e[1], sorted[1].node, lines[1])
        g3 == add_edge(g2, sorted[Len(sorted)].node, e[2], lines[Len(lines)])
    IN  add_intermediary_edges(g3, sorted, lines, 1)

\* Lines 42-71: the point node and, if the point projects inside the closest
\* line, the intersection node are added to g; the values the loop body holds
\* before it adds the edges.
point_locals(g, row, closest) ==
    LET point == row.pt
        node_name == get_new_node_unique_name(g, row.idx)
        node_info == ("x" :> point[1]) @@ ("y" :> point[2]) @@ row.cols
        g1 == add_node(g, node_name, node_info)
        closest_edge_name == closest.name
        closest_line == closest.line
        closest_line_length == LineLength(closest_line)
        intersection_distance_on_line == Project(closest_line, point)
        on_edge == is_on_edge(intersection_distance_on_line, closest_line_length)
        projected_point == Interpolate(closest_line, intersection_distance_on_line)
        new_name == get_new_node_unique_name(g1, IntersectionName(row.idx))
    IN  [ node_name |-> node_name,
          on_edge |-> on_edge,
          intersection_distance_on_line |-> intersection_distance_on_line,
          intersection_node_name |->
              IF on_edge THEN new_name ELSE closest_extremity(g1, closest_edge_name, point),
          graph |->
              IF on_edge
              THEN add_node(g1, new_name,
                            ("x" :> projected_point[1]) @@ ("y" :> projected_point[2]))
              ELSE g1 ]

\* place_point that removes the closest edge as soon as a point projects
\* inside it, instead of leaving the removal to the second loop.
place_point_eager(g, row, closest, merge_direction) ==
    LET l == point_locals(g, row, closest)
        g3 == add_merge_edges(l.graph,
                              merge_edges(g.directed, merge_direction, l.node_name,
                                          l.intersection_node_name), 1)
    IN  IF l.on_edge THEN remove_initial_edge(g3, closest.name) ELSE g3

\* Lines 42-86: the graph after one pass of the loop over the points.
place_point(g, row, closest, merge_direction) ==
    LET l == point_locals(g, row, closest)
    IN  add_merge_edges(l.graph,
                        merge_edges(g.directed, merge_direction, l.node_name,
                                    l.intersection_node_name), 1)

\* -------------------------------------------------- spatial_graph_merge
\* config_error without the multigraph check.
config_error_no_multi(base_graph, other_graph, unmerged_nodes, merging_nodes) ==
    \/ base_graph.directed # other_graph.directed
    \/ Len(unmerged_nodes) > 0 /\ Len(merging_nodes) > 0

\* Lines 131-136: the three checks that raise ValueError.
config_error(base_graph, other_graph, unmerged_nodes, merging_nodes) ==
    \/ base_graph.directed # other_graph.directed
    \/ base_graph.multi # other_graph.multi
    \/ Len(unmerged_nodes) > 0 /\ Len(merging_nodes) > 0

\* Lines 137-142: the rows of nodes_gdf.
merged_rows(other_graph, unmerged_nodes, merging_nodes) ==
    IF Len(merging_nodes) > 0
    THEN graph_nodes_to_gdf(other_graph, SeqSet(merging_nodes))
    ELSE graph_nodes_to_gdf(other_graph, NodeSet(other_graph) \ SeqSet(unmerged_nodes))

\* ------------------------------------------------------------------ inputs
NodeInfo(x, y, tag) == ("x" :> x) @@ ("y" :> y) @@ ("tag" :> tag)

RECURSIVE with_edges(_, _, _)
with_edges(g, edge_list, i) ==
    IF i > Len(edge_list) THEN g
    ELSE with_edges(add_edge(g, Name(edge_list[i][1]), Name(edge_list[i][2]), edge_list[i][3]),
                    edge_list, i + 1)

\* The base graphs: nodes A (0,0), B (4,0), C (4,3) added in this order, then
\* the edges of edge_list, each with a line that runs from the first node
\* given to add_edge to the second.
BaseGraph(directed, multi, edge_list) ==
    LET g0 == EmptyGraph(directed, multi)
        g1 == add_node(g0, Name("A"), NodeInfo(0, 0, "base"))
        g2 == add_node(g1, Name("B"), NodeInfo(4, 0, "base"))
        g3 == add_node(g2, Name("C"), NodeInfo(4, 3, "base"))
    IN  with_edges(g3, edge_list, 1)

LineAB == << <<0, 0>>, <<4, 0>> >>

LineBA == << <<4, 0>>, <<0, 0>> >>

LineBC == << <<4, 0>>, <<4, 3>> >>

DetourAB == << <<0, 0>>, <<0, -2>>, <<4, -2>>, <<4, 0>> >>

BaseGraphs ==
    { BaseGraph(FALSE, FALSE, << <<"A", "B", LineAB>>, <<"B", "C", LineBC>> >>),
      BaseGraph(FALSE, FALSE, << <<"B", "A", LineBA>>, <<"B", "C", LineBC>> >>),
      BaseGraph(TRUE, FALSE, << <<"A", "B", LineAB>>, <<"B", "A", LineBA>>, <<"B", "C", LineBC>> >>),
      BaseGraph(FALSE, TRUE, << <<"A", "B", LineAB>>, <<"A", "B", DetourAB>>, <<"B", "C", LineBC>> >>),
      BaseGraph(TRUE, TRUE, << <<"A", "B", LineAB>>, <<"A", "B", DetourAB>>, <<"B", "C", LineBC>> >>) }

Row(idx, x, y) == [idx |-> Name(idx), pt |-> <<x, y>>, cols |-> ("tag" :> "point")]

\* The rows a batch is made of.  Row "A" bears the name of a node of the graph.
Candidates ==
    { Row("P", 1, 1), Row("Q", 3, 1), Row("A", -1, 0), Row("S", 1, -1),
      Row("T", 5, 2), Row("U", 5, 0), Row("V", -1, -2) }

\* points_gdf: up to MaxPoints rows with distinct indexes.
Batches ==
    UNION { { b \in [1..n -> Candidates] : \A i, j \in 1..n : i # j => b[i] # b[j] }
            : n \in 1..MaxPoints }

MergeDirections == {"both", "in", "out"}

\* The other graphs: nodes A (1,1), X (3,-1), Y (5,2) and edges A-X, X-Y.
\* Node A bears the name of a node of the base graphs.
OtherGraph(directed, multi) ==
    LET g0 == EmptyGraph(directed, multi)
        g1 == add_node(g0, Name("A"), NodeInfo(1, 1, "other"))
        g2 == add_node(g1, Name("X"), NodeInfo(3, -1, "other"))
        g3 == add_node(g2, Name("Y"), NodeInfo(5, 2, "other"))
        g4 == add_edge(g3, Name("A"), Name("X"), << <<1, 1>>, <<3, 1>>, <<3, -1>> >>)
    IN  add_edge(g4, Name("X"), Name("Y"), << <<3, -1>>, <<5, -1>>, <<5, 2>> >>)

OtherGraphs == { OtherGraph(d, m) : d \in BOOLEAN, m \in BOOLEAN }

\* The lists given as unmerged_nodes or merging_nodes.
NodeLists == { << >>, << Name("A") >>, << Name("X") >>, << Name("A"), Name("Y") >> }

\* ------------------------------------------------------------------- state
None == [none |-> TRUE]

VARIABLES
    heap,             \* the graph objects: base_graph, other_graph, copy, composed
    pc,               \* idle, place, split, compose, done, error
    api,              \* the function the caller called: points, graph
    inplace,
    merge_direction,
    points_gdf,       \* the rows of the batch
    graph,            \* spatial_points_merge's `graph`: the object it names
    edges_as_lines,
    lines_indexes,
    edges_to_split,
    p,                \* points placed so far
    s,                \* entries of edges_to_split handled so far
    placed,           \* node_name and intersection_node_name of each placed point
    removed,          \* the names of the edges removed so far, in order
    lists,            \* unmerged_nodes and merging_nodes
    merged_graph,     \* spatial_graph_merge's `merged_graph`: the object it names
    retval,           \* the object returned, or "None"
    entry             \* base_graph (and other_graph) as they were when called

vars == << heap, pc, api, inplace, merge_direction, points_gdf, graph, edges_as_lines,
           lines_indexes, edges_to_split, p, s, placed, removed, lists, merged_graph,
           retval, entry >>

Init ==
    /\ heap \in { [base_graph |-> g, other_graph |-> None, copy |-> None, composed |-> None]
                  : g \in BaseGraphs }
    /\ pc = "idle"
    /\ api = "none"
    /\ inplace = TRUE
    /\ merge_direction = "both"
    /\ points_gdf = << >>
    /\ graph = "base_graph"
    /\ edges_as_lines = << >>
    /\ lines_indexes = << >>
    /\ edges_to_split = << >>
    /\ p = 0
    /\ s = 0
    /\ placed = << >>
    /\ removed = << >>
    /\ lists = [unmerged_nodes |-> << >>, merging_nodes |-> << >>]
    /\ merged_graph = "None"
    /\ retval = "None"
    /\ entry = [base_graph |-> None, other_graph |-> None]

\* Lines 32-39: spatial_points_merge is entered with the heap h.
EnterPointsMerge(h, rows, inp, dir) ==
    LET g == target_graph(inp)
        h1 == IF inp THEN h ELSE [h EXCEPT !.copy = h.base_graph]
        lines == get_edge_attributes(h1[g])
    IN  /\ heap' = h1
        /\ graph' = g
        /\ inplace' = inp
        /\ merge_direction' = dir
        /\ points_gdf' = rows
        /\ edges_as_lines' = lines
        /\ lines_indexes' = get_closest_line_from_points(
                                [i \in 1..Len(rows) |-> rows[i].pt],
                                [i \in 1..Len(lines) |-> lines[i].line])
        /\ edges_to_split' = << >>
        /\ p' = 0
        /\ s' = 0
        /\ pc' = "place"

\* The caller calls spatial_points_merge(base_graph, points_gdf, inplace, merge_direction).
CallPointsMerge ==
    /\ pc = "idle"
    /\ \E rows \in Batches, inp \in BOOLEAN, dir \in MergeDirections :
           EnterPointsMerge(heap, rows, inp, dir)
    /\ api' = "points"
    /\ entry' = [entry EXCEPT !.base_graph = heap.base_graph]
    /\ UNCHANGED << placed, removed, lists, merged_graph, retval >>

\* Lines 41-86: one pass of the loop over the points.
PlacePoint ==
    /\ pc = "place"
    /\ p < Len(points_gdf)
    /\ LET g == heap[graph]
           row == points_gdf[p + 1]
           closest == edges_as_lines[lines_indexes[p + 1]]
           l == point_locals(g, row, closest)
       IN  /\ heap' = [heap EXCEPT ![graph] = place_point(g, row, closest, merge_direction)]
           /\ edges_to_split' =
                  IF l.on_edge
                  THEN record_split(edges_to_split, closest.name, l.intersection_node_name,
                                    l.intersection_distance_on_line)
                  ELSE edges_to_split
           /\ placed' = Append(placed, [node |-> l.node_name, inter |-> l.intersection_node_name])
    /\ p' = p + 1
    /\ pc' = IF p + 1 = Len(points_gdf) THEN "split" ELSE "place"
    /\ UNCHANGED << api, inplace, merge_direction, points_gdf, graph, edges_as_lines,
                    lines_indexes, s, removed, lists, merged_graph, retval, entry >>

\* The line edges_as_lines holds for the edge named e.
LineOf(lines, e) == (CHOOSE l \in SeqSet(lines) : l.name = e).line

\* Lines 88-112: one pass of the loop over edges_to_split.
SplitEdge ==
    /\ pc = "split"
    /\ s < Len(edges_to_split)
    /\ LET g == heap[graph]
           e == edges_to_split[s + 1].edge
           intersection_nodes == edges_to_split[s + 1].nodes
       IN  /\ heap' = [heap EXCEPT ![graph] =
                          split_edge(g, e, intersection_nodes, LineOf(edges_as_lines, e))]
           /\ removed' = IF remove_initial_edge(g, e) # g THEN Append(removed, e) ELSE removed
    /\ s' = s + 1
    /\ UNCHANGED << pc, api, inplace, merge_direction, points_gdf, graph, edges_as_lines,
                    lines_indexes, edges_to_split, p, placed, lists, merged_graph, retval, entry >>

\* Lines 113-115, and lines 143-147 when spatial_graph_merge made the call.
ReturnPointsMerge ==
    /\ pc = "split"
    /\ s = Len(edges_to_split)
    /\ \/ /\ api = "points"
          /\ retval' = IF inplace THEN "None" ELSE graph
          /\ pc' = "done"
          /\ UNCHANGED merged_graph
       \/ /\ api = "graph"
          /\ merged_graph' = IF inplace THEN "base_graph" ELSE graph
          /\ pc' = "compose"
          /\ UNCHANGED retval
    /\ UNCHANGED << heap, api, inplace, merge_direction, points_gdf, graph, edges_as_lines,
                    lines_indexes, edges_to_split, p, s, placed, removed, lists, entry >>

\* Lines 131-136: spatial_graph_merge raises ValueError.
GraphMergeRaise ==
    /\ pc = "idle"
    /\ \E other \in OtherGraphs, inp \in BOOLEAN, dir \in MergeDirections,
          unmerged \in NodeLists, merging \in NodeLists :
           /\ config_error(heap.base_graph, other, unmerged, merging)
           /\ heap' = [heap EXCEPT !.other_graph = other]
           /\ entry' = [base_graph |-> heap.base_graph, other_graph |-> other]
           /\ inplace' = inp
           /\ merge_direction' = dir
           /\ lists' = [unmerged_nodes |-> unmerged, merging_nodes |-> merging]
    /\ api' = "graph"
    /\ pc' = "error"
    /\ UNCHANGED << points_gdf, graph, edges_as_lines, lines_indexes, edges_to_split, p, s,
                    placed, removed, merged_graph, retval >>

\* Lines 131-147: spatial_graph_merge passes its checks, builds nodes_gdf and
\* calls spatial_points_merge.
CallGraphMerge ==
    /\ pc = "idle"
    /\ \E other \in OtherGraphs, inp \in BOOLEAN, dir \in MergeDirections,
          unmerged \in NodeLists, merging \in NodeLists :
           /\ ~config_error(heap.base_graph, other, unmerged, merging)
           /\ merged_rows(other, unmerged, merging) # << >>
           /\ EnterPointsMerge([heap EXCEPT !.other_graph = other],
                               merged_rows(other, unmerged, merging), inp, dir)
           /\ entry' = [base_graph |-> heap.base_graph, other_graph |-> other]
           /\ lists' = [unmerged_nodes |-> unmerged, merging_nodes |-> merging]
    /\ api' = "graph"
    /\ UNCHANGED << placed, removed, merged_graph, retval >>

\* Lines 148-150: merged_graph = nx.compose(merged_graph, other_graph), returned
\* if not inplace.
Compose ==
    /\ pc = "compose"
    /\ heap' = [heap EXCEPT !.composed = compose(heap[merged_graph], heap.other_graph)]
    /\ merged_graph' = "composed"
    /\ retval' = IF inplace THEN "None" ELSE "composed"
    /\ pc' = "done"
    /\ UNCHANGED << api, inplace, merge_direction, points_gdf, graph, edges_as_lines,
                    lines_indexes, edges_to_split, p, s, placed, removed, lists, entry >>

Next ==
    \/ CallPointsMerge
    \/ PlacePoint
    \/ SplitEdge
    \/ ReturnPointsMerge
    \/ GraphMergeRaise
    \/ CallGraphMerge
    \/ Compose

Spec == Init /\ [][Next]_vars

\* ------------------------------------------------------------- properties
\* The graph spatial_points_merge works on.
Merged == heap[graph]

\* base_graph as it was when the call was made.
EntryGraph == entry.base_graph

PointsDone == api = "points" /\ pc = "done"

\* The stored edges of g that touch node n, as (from, to) pairs.
IncidentPairs(g, n) ==
    LET Touches(e) == e.u = n \/ e.v = n
        es == SelectSeq(g.edges, Touches)
    IN  [i \in 1..Len(es) |-> << es[i].u, es[i].v >>]

InDegree(g, n) == Cardinality({i \in 1..Len(g.edges) : g.edges[i].v = n})

OutDegree(g, n) == Cardinality({i \in 1..Len(g.edges) : g.edges[i].u = n})

\* C1: every merged point P with intersection node I has, on a directed graph,
\* exactly the edges P->I and I->P under "both", only P->I under "in", only
\* I->P under "out"; on an undirected graph exactly one edge P-I, whatever
\* merge_direction is.
C1_MergeDirectionEdges ==
    \A i \in 1..Len(placed) :
        LET P == placed[i].node
            I == placed[i].inter
            pairs == IncidentPairs(Merged, P)
        IN  IF Merged.directed
            THEN CASE merge_direction = "both" ->
                          /\ Len(pairs) = 2
                          /\ SeqSet(pairs) = { <<P, I>>, <<I, P>> }
                   [] merge_direction = "in" -> pairs = << <<P, I>> >>
                   [] merge_direction = "out" -> pairs = << <<I, P>> >>
            ELSE /\ Len(pairs) = 1
                 /\ SeqSet(pairs) \subseteq { <<P, I>>, <<I, P>> }

\* Two points have been merged into a directed graph under "out".
C1_Witness ==
    /\ PointsDone
    /\ Merged.directed
    /\ merge_direction = "out"
    /\ Len(placed) = 2

\* C2 (as amended): on a directed graph every merged point has in-degree >= 1
\* and out-degree >= 1 under "both", in-degree 0 and out-degree 1 under "in",
\* out-degree 0 and in-degree 1 under "out".
C2_Degrees ==
    (PointsDone /\ Merged.directed) =>
        \A i \in 1..Len(placed) :
            LET P == placed[i].node
            IN  CASE merge_direction = "both" ->
                         InDegree(Merged, P) >= 1 /\ OutDegree(Merged, P) >= 1
                  [] merge_direction = "in" ->
                         InDegree(Merged, P) = 0 /\ OutDegree(Merged, P) = 1
                  [] merge_direction = "out" ->
                         OutDegree(Merged, P) = 0 /\ InDegree(Merged, P) = 1

\* C2 as stated: out-degree 0 under "in" and in-degree 0 under "out".
C2_AsStated ==
    (PointsDone /\ Merged.directed) =>
        \A i \in 1..Len(placed) :
            LET P == placed[i].node
            IN  CASE merge_direction = "both" ->
                         InDegree(Merged, P) >= 1 /\ OutDegree(Merged, P) >= 1
                  [] merge_direction = "in" -> OutDegree(Merged, P) = 0
                  [] merge_direction = "out" -> InDegree(Merged, P) = 0

C2_Witness ==
    /\ PointsDone
    /\ Merged.directed
    /\ merge_direction = "in"
    /\ Len(placed) = 2
    /\ OutDegree(Merged, placed[1].node) = 1

\* Whether g holds the edge edges_as_lines names l.name, with the line l.line.
StillThere(g, l) ==
    \E i \in 1..Len(g.edges) : Named(g, g.edges[i], l.name) /\ g.edges[i].geom = l.line

\* The entry of edges_as_lines closest to the i-th point of the batch.
NearestEdge(i) ==
    edges_as_lines[closest_line_index(points_gdf[i].pt,
                                      [k \in 1..Len(edges_as_lines) |-> edges_as_lines[k].line])]

\* Whether the i-th point of the batch projects inside its nearest line.
Interior(i) ==
    LET L == NearestEdge(i).line
        d == Project(L, points_gdf[i].pt)
    IN  0 < d /\ d < LineLength(L)

\* The split requests recorded for the edge named e.
RequestsFor(e) ==
    UNION { SeqSet(edges_to_split[k].nodes) :
            k \in {j \in 1..Len(edges_to_split) : edges_to_split[j].edge = e} }

AllRequests == UNION { SeqSet(edges_to_split[k].nodes) : k \in 1..Len(edges_to_split) }

\* spatial_points_merge has been entered.
Merging == pc \in {"place", "split", "compose", "done"}

\* C3: a point that projects inside its nearest line gets a new intersection
\* node at the projected point, recorded with its distance as a split request
\* for that edge; any other point creates no node but its own, records no
\* split request and is joined to the nearer end node of the edge; and an edge
\* no point splits stays in the graph with its line.
C3_InteriorOrSnap ==
    Merging =>
    /\ \A i \in 1..Len(placed) :
           LET pt == points_gdf[i].pt
               e == NearestEdge(i)
               d == Project(e.line, pt)
               u == e.name[1]
               v == e.name[2]
               I == placed[i].inter
           IN  IF Interior(i)
               THEN /\ I \notin NodeSet(EntryGraph)
                    /\ \A j \in 1..Len(placed) : placed[j].node # I
                    /\ \A j \in 1..Len(placed) : j # i => placed[j].inter # I
                    /\ get_node_coordinates(Merged, I) = Interpolate(e.line, d)
                    /\ [node |-> I, d |-> d] \in RequestsFor(e.name)
               ELSE /\ I \in {u, v}
                    /\ DistSq(pt, get_node_coordinates(Merged, I))
                           = Min(DistSq(pt, get_node_coordinates(Merged, u)),
                                 DistSq(pt, get_node_coordinates(Merged, v)))
                    /\ \A r \in AllRequests : r.node # I
    /\ Len(Merged.nodes) = Len(EntryGraph.nodes) + Len(placed)
                               + Cardinality({i \in 1..Len(placed) : Interior(i)})
    /\ Cardinality(AllRequests) = Cardinality({i \in 1..Len(placed) : Interior(i)})
    /\ \A k \in 1..Len(edges_as_lines) :
           RequestsFor(edges_as_lines[k].name) = {} => StillThere(Merged, edges_as_lines[k])

\* A batch of one point inside its nearest line and one point beyond an end of
\* it has been merged.
C3_Witness ==
    /\ PointsDone
    /\ Len(placed) = 2
    /\ Interior(1)
    /\ ~Interior(2)
    /\ placed[2].inter \in NodeSet(EntryGraph)

\* The nodes of a split request in ascending distance, by rank.
Ranked(nodes) ==
    [j \in 1..Len(nodes) |->
        CHOOSE x \in SeqSet(nodes) : Cardinality({y \in SeqSet(nodes) : y.d < x.d}) = j - 1]

Distinct(nodes) ==
    \A a, b \in 1..Len(nodes) : a # b => nodes[a].d # nodes[b].d

RECURSIVE SumLengths(_)
SumLengths(es) == IF es = << >> THEN 0 ELSE LineLength(es[1].geom) + SumLengths(Tail(es))

\* C4: once an edge e = (u, v) with k >= 1 split requests at pairwise distinct
\* distances d_1 < ... < d_k has been split, e is absent and in its place are
\* exactly the k + 1 edges u->n_1, n_1->n_2, ..., n_k->v, oriented as e was,
\* with lines of lengths d_1, d_2 - d_1, ..., L - d_k, which sum to L.
C4_SplitChain ==
    \A r \in 1..s :
        LET req == edges_to_split[r]
            e == req.edge
            L == LineLength(LineOf(edges_as_lines, e))
            k == Len(req.nodes)
            n == Ranked(req.nodes)
            From(j) == IF j = 0 THEN e[1] ELSE n[j].node
            To(j) == IF j = k THEN e[2] ELSE n[j + 1].node
            At(j) == IF j = 0 THEN 0 ELSE IF j = k + 1 THEN L ELSE n[j].d
            mine == {n[j].node : j \in 1..k}
            points == {placed[j].node : j \in 1..Len(placed)}
            InPlace(x) == (x.u \in mine \/ x.v \in mine) /\ x.u \notin points /\ x.v \notin points
            sub == SelectSeq(Merged.edges, InPlace)
        IN  Distinct(req.nodes) =>
                /\ ~has_edge(Merged, e)
                /\ Len(sub) = k + 1
                /\ \A j \in 0..k :
                       \E x \in SeqSet(sub) :
                           /\ x.u = From(j)
                           /\ x.v = To(j)
                           /\ LineLength(x.geom) = At(j + 1) - At(j)
                /\ SumLengths(sub) = L

\* An edge with two split requests, recorded in descending distance, has been
\* split.
C4_Witness ==
    /\ pc = "done"
    /\ \E r \in 1..s :
           /\ Len(edges_to_split[r].nodes) = 2
           /\ edges_to_split[r].nodes[1].d > edges_to_split[r].nodes[2].d

\* Whether the two ends of the line of every edge of g are the coordinates of
\* the two end nodes of the edge.
EndpointsMatch(g) ==
    \A i \in 1..Len(g.edges) :
        LET x == g.edges[i]
        IN  { x.geom[1], x.geom[Len(x.geom)] }
                = { get_node_coordinates(g, x.u), get_node_coordinates(g, x.v) }

\* C5: if the two ends of every edge's line are the coordinates of its two end
\* nodes when spatial_points_merge is called, they are when it has returned.
C5_EndpointsPreserved ==
    (PointsDone /\ EndpointsMatch(EntryGraph)) => EndpointsMatch(Merged)

\* C6: with inplace=False the call returns a new graph that holds the merge
\* and the caller's graph is as it was; with inplace=True the merge is in the
\* caller's graph and nothing is returned.
C6_InplaceOrCopy ==
    PointsDone =>
        LET HoldsMerge(g) ==
                /\ \A i \in 1..Len(placed) :
                       placed[i].node \in NodeSet(g) /\ IncidentPairs(g, placed[i].node) # << >>
                /\ Len(g.nodes) > Len(EntryGraph.nodes)
        IN  IF inplace
            THEN /\ retval = "None"
                 /\ HoldsMerge(heap.base_graph)
                 /\ heap.copy = None
            ELSE /\ retval = "copy"
                 /\ HoldsMerge(heap[retval])
                 /\ heap.base_graph = EntryGraph

\* A copy-mode merge that split an edge has returned.
C6_Witness ==
    /\ PointsDone
    /\ ~inplace
    /\ removed # << >>

GraphDone == api = "graph" /\ pc = "done"

\* The graph spatial_graph_merge leaves its caller with: the graph it returns,
\* or base_graph when it works in place.
Produced == IF inplace THEN heap.base_graph ELSE heap[retval]

\* Whether g holds every node of h, and every edge of h with its line.
Contains(g, h) ==
    /\ NodeSet(h) \subseteq NodeSet(g)
    /\ \A i \in 1..Len(h.edges) :
           \E j \in 1..Len(g.edges) :
               /\ Joins(h, g.edges[j], h.edges[i].u, h.edges[i].v)
               /\ g.edges[j].key = h.edges[i].key
               /\ g.edges[j].geom = h.edges[i].geom

\* C7: after spatial_graph_merge the result graph (the returned one, or
\* base_graph itself in place, nothing being returned) holds every node and
\* edge of other_graph as well as the merged point nodes, the intersection
\* nodes and the spliced edges.
C7_UnionOfBoth ==
    GraphDone =>
        /\ inplace => retval = "None"
        /\ Contains(Produced, heap.other_graph)
        /\ \A i \in 1..Len(placed) :
               {placed[i].node, placed[i].inter} \subseteq NodeSet(Produced)
        /\ \A i \in 1..Len(Merged.edges) :
               has_edge(Produced, EdgeName(Merged, Merged.edges[i]))

\* C8: spatial_graph_merge raises when the two graphs differ in directedness
\* or in multigraph-ness, or when unmerged_nodes and merging_nodes are both
\* non-empty, and then base_graph and other_graph are as they were, and no
\* other graph has been made, in place or not.
C8_RaisesBeforeMutation ==
    (api = "graph" /\ pc # "idle") =>
        LET b == entry.base_graph
            o == entry.other_graph
            bad == \/ b.directed # o.directed
                   \/ b.multi # o.multi
                   \/ lists.unmerged_nodes # << >> /\ lists.merging_nodes # << >>
        IN  /\ bad <=> pc = "error"
            /\ pc = "error" =>
                   /\ heap.base_graph = b
                   /\ heap.other_graph = o
                   /\ heap.copy = None
                   /\ heap.composed = None
                   /\ retval = "None"

\* An in-place call with a multigraph and a graph, and no other fault, has
\* raised.
C8_Witness ==
    /\ api = "graph"
    /\ pc = "error"
    /\ inplace
    /\ entry.base_graph.multi # entry.other_graph.multi
    /\ entry.base_graph.directed = entry.other_graph.directed
    /\ lists.merging_nodes = << >>

\* The number of edges one placed point adds.
EdgesPerPoint == IF Merged.directed /\ merge_direction = "both" THEN 2 ELSE 1

\* C9: while points are being placed nothing is removed or replaced: every
\* edge the graph had at entry is there with its line, and nodes and edges are
\* only added; the first removal comes after the last point is placed; the
\* second loop removes only edges that have a split request, each at most once.
C9_TwoPhases ==
    Merging =>
        /\ s = 0 =>
               /\ removed = << >>
               /\ \A k \in 1..Len(edges_as_lines) : StillThere(Merged, edges_as_lines[k])
               /\ Len(Merged.edges) = Len(EntryGraph.edges) + p * EdgesPerPoint
               /\ \A i \in 1..Len(EntryGraph.nodes) : Merged.nodes[i] = EntryGraph.nodes[i]
        /\ removed # << >> => p = Len(points_gdf)
        /\ \A i \in 1..Len(removed) :
               /\ \E k \in 1..s : edges_to_split[k].edge = removed[i]
               /\ \A j \in 1..Len(removed) : j # i => removed[j] # removed[i]
        /\ \A k \in 1..Len(edges_as_lines) :
               RequestsFor(edges_as_lines[k].name) = {} => StillThere(Merged, edges_as_lines[k])

\* Two edges have been removed by the second loop.
C9_Witness ==
    /\ PointsDone
    /\ Len(removed) = 2
    /\ Len(points_gdf) = 2

\* C10 (as amended): in the graph nx.compose builds, every attribute that a
\* node has both in the point-merged base graph and in other_graph has the
\* value it has in other_graph.
C10_OtherWins ==
    GraphDone =>
        \A n \in NodeSet(Merged) \cap NodeSet(heap.other_graph) :
            \A k \in DOMAIN Merged.data[n] \cap DOMAIN heap.other_graph.data[n] :
                heap.composed.data[n][k] = heap.other_graph.data[n][k]

\* C10 as stated: in the graph spatial_graph_merge produces, such an attribute
\* has the value it has in the point-merged base graph.
C10_AsStated ==
    GraphDone =>
        \A n \in NodeSet(Merged) \cap NodeSet(heap.other_graph) :
            \A k \in DOMAIN Merged.data[n] \cap DOMAIN heap.other_graph.data[n] :
                Produced.data[n][k] = Merged.data[n][k]

\* The composed graph has been built from two graphs that give a shared node
\* different values.
C10_Witness ==
    /\ GraphDone
    /\ \E n \in NodeSet(Merged) \cap NodeSet(heap.other_graph) :
           Merged.data[n]["tag"] # heap.other_graph.data[n]["tag"]

====
